---- MODULE Spec2Model ----
(***************************************************************************)
(* rkyv_intern: string interning for rkyv archives.                        *)
(*                                                                         *)
(* The model follows one InternSerializerAdapter<S, InternSerializeMap>    *)
(* through an encode pass: Intern fields are serialized (the out-of-line   *)
(* bytes are written once and remembered in the registry), later resolved  *)
(* into 8-byte ArchivedStringRepr slots of the same buffer, and read back  *)
(* in place.  The wrapped serializer S is a bounded byte buffer with a     *)
(* scratch stack and a shared-pointer registry.                            *)
(***************************************************************************)
EXTENDS Integers, Sequences, FiniteSets, TLC

VARIABLES
    adapter,         \* InternSerializerAdapter { serializer, intern_registry }
    fields,          \* the Intern fields of the pass: value, resolver, slot
    unsized_writes,  \* history: every str::serialize_unsized that wrote bytes
    prims,           \* history: state-changing primitive calls made so far
    archive,         \* the finished buffer, once the adapter is consumed
    last,            \* the call just made: op, args, result, delegated calls
    options,         \* the fields of the pass that are Option<String> fields
    released,        \* the registry into_components handed to the caller
    passes,          \* passes begun after the first
    validator        \* the validation of the archive: context and progress

vars == <<adapter, fields, unsized_writes, prims, archive, last,
          options, released, passes, validator>>

\* ------------------------------------------------------------------ bounds
\* Capacity of the wrapped serializer's buffer, in bytes.
Capacity == 36
\* Intern fields serialized in one pass.
MaxFields == 2
\* Capacity of the wrapped serializer's scratch space, in bytes.
ScratchCapacity == 4
\* Calls that change the adapter, other than the fields' own, in one pass.
MaxPrims == 2
\* Passes begun after the first one.
MaxPasses == 2
\* Changes made to the archive's bytes before it is validated.
MaxTamper == 1

\* ------------------------------------------------------- program constants
\* size_of::<FixedIsize>() = size_of::<FixedUsize>() with the default 32-bit
\* archive: the width of the length and of the offset of an out-of-line slot.
OFFSET_BYTES == 4
\* size_of::<ArchivedStringRepr>() = size_of::<OutOfLineRepr>().
ReprSize == 2 * OFFSET_BYTES
\* rkyv::string::repr::INLINE_CAPACITY = size_of::<OutOfLineRepr>() - 1.
INLINE_CAPACITY == ReprSize - 1

\* ---------------------------------------------------------------- helpers
Rep(ch, n) == [i \in 1..n |-> ch]

Zeros(n) == Rep(0, n)

\* Option<T>: None is the empty sequence, Some(x) the one-element sequence.
None == <<>>
Some(x) == <<x>>
IsSome(o) == Len(o) = 1

\* Result<T, E>.
Ok(v) == [ok |-> TRUE, val |-> v, err |-> <<>>]
Err(e) == [ok |-> FALSE, val |-> <<>>, err |-> e]
Unit == <<>>

\* InternSerializerAdapterError<S, T>: the variant and the error it carries.
SerializerError(e) == <<"SerializerError", e>>
InternError(e) == <<"InternError", e>>

\* One delegated call, as the handler that made it saw it.
Call(target, op, args, res) == [target |-> target, op |-> op, args |-> args, res |-> res]

\* The strings the encode pass is fed: empty, one byte, exactly
\* INLINE_CAPACITY bytes, and two long strings of different lengths.
Strings ==
    { Rep(97, 0), Rep(98, 1), Rep(97, INLINE_CAPACITY),
      Rep(97, INLINE_CAPACITY + 1), Rep(98, INLINE_CAPACITY + 2) }

\* ----------------------------------------------- little-endian integers
\* to_le_bytes of a w-byte two's-complement integer (floor division keeps the
\* sign extension of a negative v).
RECURSIVE Pow256(_)
Pow256(i) == IF i = 0 THEN 1 ELSE 256 * Pow256(i - 1)

to_le_bytes(v, w) == [i \in 1..w |-> (v \div Pow256(i - 1)) % 256]

\* from_le_bytes of an unsigned (u32) and of a signed (i32) integer.
RECURSIVE from_le_unsigned(_)
from_le_unsigned(bs) ==
    IF bs = <<>> THEN 0 ELSE bs[1] + 256 * from_le_unsigned(Tail(bs))

from_le_signed(bs) ==
    LET w == Len(bs)
        top == IF bs[w] >= 128 THEN bs[w] - 256 ELSE bs[w]
    IN from_le_unsigned(SubSeq(bs, 1, w - 1)) + Pow256(w - 1) * top

\* ------------------------------------------------- the wrapped serializer S
\* A serializer with a fixed buffer, a scratch stack and a shared-pointer
\* registry.  Every operation returns the new serializer and its result.
Layouts == {4}
SharedPtrs == {"p1"}

S_default == [buf |-> <<>>, scratch |-> <<>>, shared |-> <<>>]

S_pos(s) == Len(s.buf)

S_write(s, bytes) ==
    IF Len(bytes) > Capacity - Len(s.buf)
    THEN [s |-> s, res |-> Err("Overflow")]
    ELSE [s |-> [s EXCEPT !.buf = @ \o bytes], res |-> Ok(Unit)]

S_pad(s, padding) == S_write(s, Zeros(padding))

S_align(s, align) ==
    LET r == S_pad(s, (align - (S_pos(s) % align)) % align)
    IN IF r.res.ok THEN [s |-> r.s, res |-> Ok(S_pos(r.s))] ELSE r

S_push_scratch(s, layout) ==
    LET used == Len(s.scratch)
        total == IF used = 0 THEN 0 ELSE s.scratch[used].end
    IN IF layout > ScratchCapacity - total
       THEN [s |-> s, res |-> Err("OutOfScratch")]
       ELSE [s |-> [s EXCEPT !.scratch = Append(@, [at |-> total, end |-> total + layout])],
             res |-> Ok(total)]

S_pop_scratch(s, ptr, layout) ==
    LET used == Len(s.scratch)
    IN IF used > 0 /\ s.scratch[used].at = ptr /\ s.scratch[used].end = ptr + layout
       THEN [s |-> [s EXCEPT !.scratch = SubSeq(@, 1, used - 1)], res |-> Ok(Unit)]
       ELSE [s |-> s, res |-> Err("NotPoppedInReverseOrder")]

\* The shared-pointer registry is a sequence of (pointer, position) entries.
S_get_shared_ptr(s, value) ==
    LET hits == {i \in 1..Len(s.shared) : s.shared[i][1] = value}
    IN IF hits = {} THEN None ELSE Some(s.shared[CHOOSE i \in hits : TRUE][2])

S_add_shared_ptr(s, value, pos) ==
    IF IsSome(S_get_shared_ptr(s, value))
    THEN [s |-> s, res |-> Err("DuplicateSharedPointer")]
    ELSE [s |-> [s EXCEPT !.shared = Append(@, <<value, pos>>)], res |-> Ok(Unit)]

\* ------------------------------------------------------ ArchivedStringRepr
\* The slot is OFFSET_BYTES * 2 bytes.  Inline: INLINE_CAPACITY bytes and a
\* length byte.  Out of line: the length (u32, little endian) and the signed
\* offset from the slot to the bytes (i32, little endian), whose sign bit is
\* the top bit of the slot's last byte.
emplace_inline(value) ==
    value \o Zeros(INLINE_CAPACITY - Len(value)) \o <<Len(value)>>

\* rel_ptr::signed_offset(pos, target), stored `as FixedIsize`.
signed_offset(from, to) == to - from

emplace_out_of_line(value, pos, target) ==
    to_le_bytes(Len(value), OFFSET_BYTES)
        \o to_le_bytes(signed_offset(pos, target), OFFSET_BYTES)

\* The reader's side, on the ReprSize bytes of a slot.
is_inline(repr) == repr[ReprSize] < 128

out_of_line_offset(repr) == from_le_signed(SubSeq(repr, OFFSET_BYTES + 1, ReprSize))

repr_len(repr) ==
    IF is_inline(repr) THEN repr[ReprSize]
    ELSE from_le_unsigned(SubSeq(repr, 1, OFFSET_BYTES))

SlotBytes(buf, pos) == SubSeq(buf, pos + 1, pos + ReprSize)

\* Address (buffer offset) of the first string byte of the slot at pos.
as_ptr(buf, pos) ==
    LET repr == SlotBytes(buf, pos)
    IN IF is_inline(repr) THEN pos ELSE pos + out_of_line_offset(repr)

\* ArchivedInternedString::as_str on the slot at pos.  Bytes outside the
\* buffer are not the program's to read; the model reads them as 255.
as_str(buf, pos) ==
    LET repr == SlotBytes(buf, pos)
        p == as_ptr(buf, pos)
    IN [i \in 1..repr_len(repr) |->
           IF p + i \in 1..Len(buf) THEN buf[p + i] ELSE 255]

\* ------------------------------------------------------ InternSerializeMap
\* value_to_pos: HashMap<String, usize>, a function on the interned contents.
Map_default == [value_to_pos |-> <<>>]

\* Mutant of get_interned: HashMap::remove for HashMap::get.
Map_get_interned_remove(m, value) ==
    [m |-> [m EXCEPT !.value_to_pos =
               [v \in DOMAIN @ \ {value} |-> @[v]]],
     res |-> IF value \in DOMAIN m.value_to_pos
             THEN Some(m.value_to_pos[value]) ELSE None]

Map_get_interned(m, value) ==
    [m |-> m,
     res |-> IF value \in DOMAIN m.value_to_pos
             THEN Some(m.value_to_pos[value]) ELSE None]

\* Mutant of add_interned: the entry is inserted whether vacant or not.
Map_add_interned_overwrite(m, value, pos) ==
    [m |-> [m EXCEPT !.value_to_pos =
               [v \in DOMAIN @ \cup {value} |-> IF v = value THEN pos ELSE @[v]]],
     res |-> Ok(Unit)]

\* Mutant of add_interned: HashMap::insert, and the error when it returned
\* an old value.
Map_add_interned_insert_first(m, value, pos) ==
    [m |-> [m EXCEPT !.value_to_pos =
               [v \in DOMAIN @ \cup {value} |-> IF v = value THEN pos ELSE @[v]]],
     res |-> IF value \in DOMAIN m.value_to_pos
             THEN Err("DuplicateKeyAdded") ELSE Ok(Unit)]

Map_add_interned(m, value, pos) ==
    IF value \notin DOMAIN m.value_to_pos
    THEN [m |-> [m EXCEPT !.value_to_pos =
                    [v \in DOMAIN @ \cup {value} |-> IF v = value THEN pos ELSE @[v]]],
          res |-> Ok(Unit)]
    ELSE [m |-> m, res |-> Err("DuplicateKeyAdded")]

\* ----------------------------------------------- InternSerializerAdapter
\* Every operation returns the new adapter, its result and the calls it
\* delegated, in order.
Adapter_default == [serializer |-> S_default, intern_registry |-> Map_default]

\* InternSerializerAdapter::new.
Adapter_new(serializer, intern_registry) ==
    [serializer |-> serializer, intern_registry |-> intern_registry]

\* InternSerializerAdapter::into_components: both parts go to the caller.
into_components(ad) == <<ad.serializer, ad.intern_registry>>

\* InternSerializerAdapter::into_serializer: the registry is dropped.
into_serializer(ad) == ad.serializer

\* `.map_err(InternSerializerAdapterError::SerializerError)` and
\* `.map_err(InternSerializerAdapterError::InternError)`.
map_err(res, variant) == IF res.ok THEN res ELSE Err(<<variant, res.err>>)

\* A call forwarded to the wrapped serializer, its error tagged.
Forward(ad, op, args, r) ==
    [ad |-> [ad EXCEPT !.serializer = r.s],
     res |-> map_err(r.res, "SerializerError"),
     calls |-> <<Call("S", op, args, r.res)>>]

Adapter_pos(ad) ==
    [ad |-> ad, res |-> S_pos(ad.serializer),
     calls |-> <<Call("S", "pos", <<>>, S_pos(ad.serializer))>>]

\* Mutant of write: Ok is returned and the bytes are not forwarded.
Adapter_write_dropped(ad, bytes) ==
    [ad |-> ad, res |-> Ok(Unit), calls |-> <<Call("S", "write", <<bytes>>, Ok(Unit))>>]

Adapter_write(ad, bytes) ==
    Forward(ad, "write", <<bytes>>, S_write(ad.serializer, bytes))

Adapter_pad(ad, padding) ==
    Forward(ad, "pad", <<padding>>, S_pad(ad.serializer, padding))

Adapter_align(ad, align) ==
    Forward(ad, "align", <<align>>, S_align(ad.serializer, align))

Adapter_push_scratch(ad, layout) ==
    Forward(ad, "push_scratch", <<layout>>, S_push_scratch(ad.serializer, layout))

\* Mutant of pop_scratch: the release is not forwarded.
Adapter_pop_scratch_dropped(ad, ptr, layout) ==
    [ad |-> ad, res |-> Ok(Unit), calls |-> <<>>]

Adapter_pop_scratch(ad, ptr, layout) ==
    Forward(ad, "pop_scratch", <<ptr, layout>>, S_pop_scratch(ad.serializer, ptr, layout))

Adapter_get_shared_ptr(ad, value) ==
    [ad |-> ad, res |-> S_get_shared_ptr(ad.serializer, value),
     calls |-> <<Call("S", "get_shared_ptr", <<value>>,
                      S_get_shared_ptr(ad.serializer, value))>>]

Adapter_add_shared_ptr(ad, value, pos) ==
    Forward(ad, "add_shared_ptr", <<value, pos>>,
            S_add_shared_ptr(ad.serializer, value, pos))

Adapter_get_interned(ad, value) ==
    LET r == Map_get_interned(ad.intern_registry, value)
    IN [ad |-> [ad EXCEPT !.intern_registry = r.m], res |-> r.res,
        calls |-> <<Call("T", "get_interned", <<value>>, r.res)>>]

\* Mutant of add_interned: the registry's error tagged as the serializer's.
Adapter_add_interned_wrong_tag(ad, value, pos) ==
    LET r == Map_add_interned(ad.intern_registry, value, pos)
    IN [ad |-> [ad EXCEPT !.intern_registry = r.m],
        res |-> map_err(r.res, "SerializerError"),
        calls |-> <<Call("T", "add_interned", <<value, pos>>, r.res)>>]

Adapter_add_interned(ad, value, pos) ==
    LET r == Map_add_interned(ad.intern_registry, value, pos)
    IN [ad |-> [ad EXCEPT !.intern_registry = r.m],
        res |-> map_err(r.res, "InternError"),
        calls |-> <<Call("T", "add_interned", <<value, pos>>, r.res)>>]

\* <str as SerializeUnsized<S>>::serialize_unsized with the adapter as S:
\* the position before the write, then the bytes.
serialize_unsized(ad, value) ==
    LET p == Adapter_pos(ad)
        w == Adapter_write(p.ad, value)
    IN [ad |-> w.ad,
        res |-> IF w.res.ok THEN Ok(p.res) ELSE w.res,
        calls |-> p.calls \o w.calls]

\* Mutant of serialize_interned: the position is read after the write.
serialize_interned_pos_after(ad, value) ==
    LET g == Adapter_get_interned(ad, value)
    IN IF IsSome(g.res)
       THEN [ad |-> g.ad, res |-> Ok(g.res[1]), calls |-> g.calls]
       ELSE LET u == serialize_unsized(g.ad, value)
            IN IF ~u.res.ok
               THEN [ad |-> u.ad, res |-> u.res, calls |-> g.calls \o u.calls]
               ELSE LET a == Adapter_add_interned(u.ad, value, S_pos(u.ad.serializer))
                    IN [ad |-> a.ad,
                        res |-> IF a.res.ok THEN Ok(S_pos(u.ad.serializer)) ELSE a.res,
                        calls |-> g.calls \o u.calls \o a.calls]

\* Mutant of serialize_interned: the lookup is skipped, every call writes.
serialize_interned_nolookup(ad, value) ==
    LET u == serialize_unsized(ad, value)
    IN IF ~u.res.ok
       THEN [ad |-> u.ad, res |-> u.res, calls |-> u.calls]
       ELSE LET a == Adapter_add_interned(u.ad, value, u.res.val)
            IN [ad |-> a.ad,
                res |-> IF a.res.ok THEN Ok(u.res.val) ELSE a.res,
                calls |-> u.calls \o a.calls]

\* Mutant of serialize_interned: a content found is recorded again.
serialize_interned_readd(ad, value) ==
    LET g == Adapter_get_interned(ad, value)
    IN IF IsSome(g.res)
       THEN LET a == Adapter_add_interned(g.ad, value, g.res[1])
            IN [ad |-> a.ad,
                res |-> IF a.res.ok THEN Ok(g.res[1]) ELSE a.res,
                calls |-> g.calls \o a.calls]
       ELSE LET u == serialize_unsized(g.ad, value)
            IN IF ~u.res.ok
               THEN [ad |-> u.ad, res |-> u.res, calls |-> g.calls \o u.calls]
               ELSE LET a == Adapter_add_interned(u.ad, value, u.res.val)
                    IN [ad |-> a.ad,
                        res |-> IF a.res.ok THEN Ok(u.res.val) ELSE a.res,
                        calls |-> g.calls \o u.calls \o a.calls]

\* Mutant of serialize_interned: the content is recorded at the current
\* position before its bytes are written.
serialize_interned_add_first(ad, value) ==
    LET g == Adapter_get_interned(ad, value)
    IN IF IsSome(g.res)
       THEN [ad |-> g.ad, res |-> Ok(g.res[1]), calls |-> g.calls]
       ELSE LET a == Adapter_add_interned(g.ad, value, S_pos(g.ad.serializer))
            IN IF ~a.res.ok
               THEN [ad |-> a.ad, res |-> a.res, calls |-> g.calls \o a.calls]
               ELSE LET u == serialize_unsized(a.ad, value)
                    IN [ad |-> u.ad, res |-> u.res,
                        calls |-> g.calls \o a.calls \o u.calls]

\* InternSerializeRegistry::serialize_interned (the trait's default method).
serialize_interned(ad, value) ==
    LET g == Adapter_get_interned(ad, value)
    IN IF IsSome(g.res)
       THEN [ad |-> g.ad, res |-> Ok(g.res[1]), calls |-> g.calls]
       ELSE LET u == serialize_unsized(g.ad, value)
            IN IF ~u.res.ok
               THEN [ad |-> u.ad, res |-> u.res, calls |-> g.calls \o u.calls]
               ELSE LET a == Adapter_add_interned(u.ad, value, u.res.val)
                    IN [ad |-> a.ad,
                        res |-> IF a.res.ok THEN Ok(u.res.val) ELSE a.res,
                        calls |-> g.calls \o u.calls \o a.calls]

\* ------------------------------------------------- ArchivedInternedString
\* InternedStringResolver { pos }.
InternedStringResolver(pos) == [pos |-> pos]

\* Mutant of serialize_from_str: `<` for `<=`.
serialize_from_str_lt(ad, value) ==
    IF Len(value) < INLINE_CAPACITY
    THEN [ad |-> ad, res |-> Ok(InternedStringResolver(0)), calls |-> <<>>]
    ELSE LET r == serialize_interned(ad, value)
         IN [ad |-> r.ad,
             res |-> IF r.res.ok THEN Ok(InternedStringResolver(r.res.val)) ELSE r.res,
             calls |-> r.calls]

\* Mutant of serialize_from_str: the position is handed out and the bytes
\* are not written.
serialize_from_str_unwritten(ad, value) ==
    IF Len(value) <= INLINE_CAPACITY
    THEN [ad |-> ad, res |-> Ok(InternedStringResolver(0)), calls |-> <<>>]
    ELSE [ad |-> ad, res |-> Ok(InternedStringResolver(S_pos(ad.serializer))),
          calls |-> <<>>]

serialize_from_str(ad, value) ==
    IF Len(value) <= INLINE_CAPACITY
    THEN [ad |-> ad, res |-> Ok(InternedStringResolver(0)), calls |-> <<>>]
    ELSE LET r == serialize_interned(ad, value)
         IN [ad |-> r.ad,
             res |-> IF r.res.ok THEN Ok(InternedStringResolver(r.res.val)) ELSE r.res,
             calls |-> r.calls]

\* Mutant of resolve_from_str: `<` for `<=`.
resolve_from_str_lt(value, pos, resolver) ==
    IF Len(value) < INLINE_CAPACITY
    THEN emplace_inline(value)
    ELSE emplace_out_of_line(value, pos, resolver.pos)

\* Mutant of resolve_from_str: the slot's size for the inline capacity.
resolve_from_str_repr_size(value, pos, resolver) ==
    IF Len(value) <= ReprSize
    THEN emplace_inline(value)
    ELSE emplace_out_of_line(value, pos, resolver.pos)

\* The bytes resolve_from_str leaves in the (zeroed) slot at pos.
resolve_from_str(value, pos, resolver) ==
    IF Len(value) <= INLINE_CAPACITY
    THEN emplace_inline(value)
    ELSE emplace_out_of_line(value, pos, resolver.pos)

\* Mutant of resolve_with: the slot's position is not passed on, so the
\* offset stored is the absolute one.
resolve_with_absolute(field, pos, resolver) == resolve_from_str(field, 0, resolver)

\* ------------------------------------------ the archive's integer width
\* FixedIsize and FixedUsize are w bytes wide: 4 with rkyv's default size_32,
\* 2 with size_16.  usize and isize, the host's, are wider: positions and
\* their differences are not cut before they are stored.
ArchiveWidths == {OFFSET_BYTES \div 2, OFFSET_BYTES}

emplace_inline_sized(value, w) ==
    value \o Zeros((2 * w - 1) - Len(value)) \o <<Len(value)>>

\* `value.len() as FixedUsize` and `signed_offset(pos, target).unwrap() as
\* FixedIsize`: the low w bytes of each.
emplace_out_of_line_sized(value, pos, target, w) ==
    to_le_bytes(Len(value), w) \o to_le_bytes(signed_offset(pos, target), w)

is_inline_sized(repr, w) == repr[2 * w] < 128

out_of_line_offset_sized(repr, w) == from_le_signed(SubSeq(repr, w + 1, 2 * w))

\* resolve_from_str in an archive of width w: INLINE_CAPACITY is 2 * w - 1.
resolve_from_str_sized(value, pos, resolver, w) ==
    IF Len(value) <= 2 * w - 1
    THEN emplace_inline_sized(value, w)
    ELSE emplace_out_of_line_sized(value, pos, resolver.pos, w)

\* impl ArchiveWith / SerializeWith / DeserializeWith<String> for Intern.
resolve_with(field, pos, resolver) == resolve_from_str(field, pos, resolver)

serialize_with(ad, field) == serialize_from_str(ad, field)

\* field.as_str().to_string()
deserialize_with(buf, pos) == as_str(buf, pos)

\* ------------------------------------------- Intern on Option<String>
\* ArchivedOptionTag, repr(u8).
ArchivedOptionTag_None == 0
ArchivedOptionTag_Some == 1

\* out_field!(out.1) of the repr(C) ArchivedOptionVariantSome<T>(tag, T): the
\* offset of the value behind the one-byte tag, at T's alignment.
OptionSomeOffset == OFFSET_BYTES

\* Mutant of resolve_with (Option): the inner slot resolved at the option's position
\* instead of its own.
resolve_with_option_at_tag(field, pos, resolver) ==
    IF resolver = None
    THEN <<ArchivedOptionTag_None>> \o Zeros(OptionSomeOffset - 1) \o Zeros(ReprSize)
    ELSE <<ArchivedOptionTag_Some>> \o Zeros(OptionSomeOffset - 1)
            \o resolve_with(field[1], pos, resolver[1])

\* impl ArchiveWith<Option<T>> for Intern: the bytes left in the (zeroed)
\* ArchivedOption slot at pos.
resolve_with_option(field, pos, resolver) ==
    IF resolver = None
    THEN <<ArchivedOptionTag_None>> \o Zeros(OptionSomeOffset - 1) \o Zeros(ReprSize)
    ELSE <<ArchivedOptionTag_Some>> \o Zeros(OptionSomeOffset - 1)
            \o resolve_with(field[1], pos + OptionSomeOffset, resolver[1])

\* impl SerializeWith<Option<T>, S> for Intern.
serialize_with_option(ad, field) ==
    IF field = None
    THEN [ad |-> ad, res |-> Ok(None), calls |-> <<>>]
    ELSE LET r == serialize_with(ad, field[1])
         IN [ad |-> r.ad,
             res |-> IF r.res.ok THEN Ok(Some(r.res.val)) ELSE r.res,
             calls |-> r.calls]

\* impl DeserializeWith<ArchivedOption<_>, Option<T>, D> for Intern.
deserialize_with_option(buf, pos) ==
    IF buf[pos + 1] = ArchivedOptionTag_None
    THEN None
    ELSE Some(deserialize_with(buf, pos + OptionSomeOffset))

\* ------------------------------------------------ the validation context
\* core::str::from_utf8 on a byte string.
Continuation(b) == b \in 128..191

RECURSIVE Utf8Valid(_)
Utf8Valid(bs) ==
    IF bs = <<>> THEN TRUE
    ELSE LET b == bs[1]
             n == Len(bs)
         IN CASE b < 128 -> Utf8Valid(Tail(bs))
              [] b \in 194..223 ->
                    /\ n >= 2
                    /\ Continuation(bs[2])
                    /\ Utf8Valid(SubSeq(bs, 3, n))
              [] b \in 224..239 ->
                    /\ n >= 3
                    /\ bs[2] \in (IF b = 224 THEN 160..191
                                  ELSE IF b = 237 THEN 128..159 ELSE 128..191)
                    /\ Continuation(bs[3])
                    /\ Utf8Valid(SubSeq(bs, 4, n))
              [] b \in 240..244 ->
                    /\ n >= 4
                    /\ bs[2] \in (IF b = 240 THEN 144..191
                                  ELSE IF b = 244 THEN 128..143 ELSE 128..191)
                    /\ Continuation(bs[3])
                    /\ Continuation(bs[4])
                    /\ Utf8Valid(SubSeq(bs, 5, n))
              [] OTHER -> FALSE

\* <str as CheckBytes>::check_bytes on the len bytes at address addr.
str_check_bytes(bytes, addr, len) ==
    IF Utf8Valid(SubSeq(bytes, addr + 1, addr + len))
    THEN Ok(Unit) ELSE Err("Utf8Error")

\* The context C: ArchiveContext + SharedContext: the buffer's length, the
\* subtree range open for claiming, its depth, and the shared addresses
\* registered so far with their type.  Every operation returns the new
\* context and its result.
Ctx_bounds_check_ptr(ctx, base, offset) ==
    IF base + offset < 0 \/ base + offset > ctx.len
    THEN [ctx |-> ctx, res |-> Err("OutOfBounds")]
    ELSE [ctx |-> ctx, res |-> Ok(base + offset)]

Ctx_bounds_check_layout(ctx, addr, size) ==
    IF ctx.len - addr < size
    THEN [ctx |-> ctx, res |-> Err("Overrun")]
    ELSE [ctx |-> ctx, res |-> Ok(Unit)]

\* check_ptr::<str>: the pointer is the address and the length (metadata).
Ctx_check_ptr(ctx, base, offset, metadata) ==
    LET a == Ctx_bounds_check_ptr(ctx, base, offset)
    IN IF ~a.res.ok THEN a
       ELSE LET l == Ctx_bounds_check_layout(ctx, a.res.val, metadata)
            IN IF ~l.res.ok THEN l
               ELSE [ctx |-> ctx, res |-> Ok([addr |-> a.res.val, len |-> metadata])]

Ctx_register_shared_ptr(ctx, addr, type_id) ==
    IF addr \in DOMAIN ctx.shared
    THEN [ctx |-> ctx,
          res |-> IF ctx.shared[addr] = type_id
                  THEN Ok(FALSE) ELSE Err("MismatchedSharedTypes")]
    ELSE [ctx |-> [ctx EXCEPT !.shared =
                      [a \in DOMAIN @ \cup {addr} |-> IF a = addr THEN type_id ELSE @[a]]],
          res |-> Ok(TRUE)]

Ctx_bounds_check_subtree_ptr(ctx, ptr) ==
    IF ptr.len = 0
    THEN [ctx |-> ctx,
          res |-> IF ptr.addr < ctx.subtree_start \/ ptr.addr > ctx.subtree_end
                  THEN Err("SubtreePointerOutOfBounds") ELSE Ok(Unit)]
    ELSE [ctx |-> ctx,
          res |-> IF ptr.addr < ctx.subtree_start \/ ptr.addr >= ctx.subtree_end
                  THEN Err("SubtreePointerOutOfBounds")
                  ELSE IF ctx.subtree_end - ptr.addr < ptr.len
                       THEN Err("SubtreePointerOverrun") ELSE Ok(Unit)]

Ctx_push_prefix_subtree(ctx, ptr) ==
    [ctx |-> [ctx EXCEPT !.subtree_end = ptr.addr, !.depth = @ + 1],
     res |-> Ok([start |-> ptr.addr + ptr.len, end |-> ctx.subtree_end,
                 depth |-> ctx.depth])]

Ctx_pop_prefix_range(ctx, range) ==
    IF ctx.depth - 1 # range.depth
    THEN [ctx |-> ctx, res |-> Err("RangePoppedOutOfOrder")]
    ELSE [ctx |-> [ctx EXCEPT !.subtree_start = range.start,
                              !.subtree_end = range.end,
                              !.depth = range.depth],
          res |-> Ok(Unit)]

\* The context while the root object at position root is checked: its
\* prefix, the bytes before it, is open for claiming.
Ctx_root(bytes, root) ==
    [len |-> Len(bytes), subtree_start |-> 0, subtree_end |-> root, depth |-> 1,
     shared |-> <<>>]

\* OwnedPointerError::ContextError and ::ValueCheckBytesError.
ContextError(e) == <<"ContextError", e>>
ValueCheckBytesError(e) == <<"ValueCheckBytesError", e>>

\* ------------------------------- CheckBytes for ArchivedInternedString
\* TypeId::of::<ArchivedInternedString>().
TypeId == "ArchivedInternedString"

\* The branch taken when register_shared_ptr returned true: the region is
\* claimed in the subtree range and its content is checked.  calls are the
\* calls check_bytes made before.
check_shared_str(ctx, bytes, value, ptr, calls) ==
    LET b == Ctx_bounds_check_subtree_ptr(ctx, ptr)
        c3 == Call("C", "bounds_check_subtree_ptr", <<ptr>>, b.res)
    IN IF ~b.res.ok
       THEN [ctx |-> b.ctx, res |-> Err(ContextError(b.res.err)),
             calls |-> calls \o <<c3>>]
       ELSE
    LET u == Ctx_push_prefix_subtree(b.ctx, ptr)
        c4 == Call("C", "push_prefix_subtree", <<ptr>>, u.res)
        v == str_check_bytes(bytes, ptr.addr, ptr.len)
        c5 == Call("str", "check_bytes", <<ptr>>, v)
    IN IF ~v.ok
       THEN [ctx |-> u.ctx, res |-> Err(ValueCheckBytesError(v.err)),
             calls |-> calls \o <<c3, c4, c5>>]
       ELSE
    LET o == Ctx_pop_prefix_range(u.ctx, u.res.val)
        c6 == Call("C", "pop_prefix_range", <<u.res.val>>, o.res)
    IN [ctx |-> o.ctx,
        res |-> IF o.res.ok THEN Ok(value) ELSE Err(ContextError(o.res.err)),
        calls |-> calls \o <<c3, c4, c5, c6>>]

\* Mutant of check_bytes: the answer of register_shared_ptr is not looked
\* at, every slot checks its region.
check_bytes_revalidate(ctx, bytes, value) ==
    LET repr == SlotBytes(bytes, value)
    IN IF is_inline(repr)
       THEN LET v == str_check_bytes(bytes, value, repr_len(repr))
            IN [ctx |-> ctx,
                res |-> IF v.ok THEN Ok(value) ELSE Err(ValueCheckBytesError(v.err)),
                calls |-> <<Call("str", "check_bytes",
                                 <<[addr |-> value, len |-> repr_len(repr)]>>, v)>>]
       ELSE
    LET base == value
        offset == out_of_line_offset(repr)
        metadata == repr_len(repr)
        p == Ctx_check_ptr(ctx, base, offset, metadata)
        c1 == Call("C", "check_ptr", <<base, offset, metadata>>, p.res)
    IN IF ~p.res.ok
       THEN [ctx |-> p.ctx, res |-> Err(ContextError(p.res.err)), calls |-> <<c1>>]
       ELSE
    LET ptr == p.res.val
        g == Ctx_register_shared_ptr(p.ctx, ptr.addr, TypeId)
        c2 == Call("C", "register_shared_ptr", <<ptr.addr, TypeId>>, g.res)
    IN IF ~g.res.ok
       THEN [ctx |-> g.ctx, res |-> Err(ContextError(g.res.err)), calls |-> <<c1, c2>>]
       ELSE check_shared_str(g.ctx, bytes, value, ptr, <<c1, c2>>)

\* Mutant of check_bytes: the pointer is bounds-checked only on the branch
\* that checks the content, after the address was looked up.
check_bytes_ptr_late(ctx, bytes, value) ==
    LET repr == SlotBytes(bytes, value)
    IN IF is_inline(repr)
       THEN LET v == str_check_bytes(bytes, value, repr_len(repr))
            IN [ctx |-> ctx,
                res |-> IF v.ok THEN Ok(value) ELSE Err(ValueCheckBytesError(v.err)),
                calls |-> <<Call("str", "check_bytes",
                                 <<[addr |-> value, len |-> repr_len(repr)]>>, v)>>]
       ELSE
    LET base == value
        offset == out_of_line_offset(repr)
        metadata == repr_len(repr)
        g == Ctx_register_shared_ptr(ctx, base + offset, TypeId)
        c2 == Call("C", "register_shared_ptr", <<base + offset, TypeId>>, g.res)
    IN IF ~g.res.ok
       THEN [ctx |-> g.ctx, res |-> Err(ContextError(g.res.err)), calls |-> <<c2>>]
       ELSE IF ~g.res.val
       THEN [ctx |-> g.ctx, res |-> Ok(value), calls |-> <<c2>>]
       ELSE
    LET p == Ctx_check_ptr(g.ctx, base, offset, metadata)
        c1 == Call("C", "check_ptr", <<base, offset, metadata>>, p.res)
    IN IF ~p.res.ok
       THEN [ctx |-> p.ctx, res |-> Err(ContextError(p.res.err)), calls |-> <<c2, c1>>]
       ELSE check_shared_str(p.ctx, bytes, value, p.res.val, <<c2, c1>>)

\* <ArchivedInternedString as CheckBytes<C>>::check_bytes on the slot at
\* position value of bytes: the new context, the result and the calls made.
check_bytes(ctx, bytes, value) ==
    LET repr == SlotBytes(bytes, value)
    IN IF is_inline(repr)
       THEN LET v == str_check_bytes(bytes, value, repr_len(repr))
            IN [ctx |-> ctx,
                res |-> IF v.ok THEN Ok(value) ELSE Err(ValueCheckBytesError(v.err)),
                calls |-> <<Call("str", "check_bytes",
                                 <<[addr |-> value, len |-> repr_len(repr)]>>, v)>>]
       ELSE
    LET base == value
        offset == out_of_line_offset(repr)
        metadata == repr_len(repr)
        p == Ctx_check_ptr(ctx, base, offset, metadata)
        c1 == Call("C", "check_ptr", <<base, offset, metadata>>, p.res)
    IN IF ~p.res.ok
       THEN [ctx |-> p.ctx, res |-> Err(ContextError(p.res.err)), calls |-> <<c1>>]
       ELSE
    LET ptr == p.res.val
        g == Ctx_register_shared_ptr(p.ctx, ptr.addr, TypeId)
        c2 == Call("C", "register_shared_ptr", <<ptr.addr, TypeId>>, g.res)
    IN IF ~g.res.ok
       THEN [ctx |-> g.ctx, res |-> Err(ContextError(g.res.err)), calls |-> <<c1, c2>>]
       ELSE IF ~g.res.val
       THEN [ctx |-> g.ctx, res |-> Ok(value), calls |-> <<c1, c2>>]
       ELSE check_shared_str(g.ctx, bytes, value, ptr, <<c1, c2>>)

\* ------------------------------------- resolving through the serializer
\* align_of of the archived types the pass places.
Types == {"ArchivedInternedString"}
AlignOf(U) == IF U = "ArchivedInternedString" THEN OFFSET_BYTES ELSE 1

S_align_for(s, U) == S_align(s, AlignOf(U))

\* Serializer::resolve_aligned for an Intern field: the slot is resolved at
\* the current position and its bytes are written there.
S_resolve_aligned(s, value, resolver) ==
    LET pos == S_pos(s)
        w == S_write(s, resolve_with(value, pos, resolver))
    IN IF w.res.ok THEN [s |-> w.s, res |-> Ok(pos)] ELSE w

\* Serializer::resolve_unsized_aligned for a str: a relative pointer to `to`
\* and the length as metadata.
S_resolve_unsized_aligned(s, value, to, metadata_resolver) ==
    LET from == S_pos(s)
        w == S_write(s, to_le_bytes(signed_offset(from, to), OFFSET_BYTES)
                          \o to_le_bytes(Len(value), OFFSET_BYTES))
    IN IF w.res.ok THEN [s |-> w.s, res |-> Ok(from)] ELSE w

Adapter_align_for(ad, U) ==
    Forward(ad, "align_for", <<U>>, S_align_for(ad.serializer, U))

Adapter_resolve_aligned(ad, value, resolver) ==
    Forward(ad, "resolve_aligned", <<value, resolver>>,
            S_resolve_aligned(ad.serializer, value, resolver))

\* Serializer::resolve_aligned for an Intern field of type Option<String>.
S_resolve_aligned_option(s, value, resolver) ==
    LET pos == S_pos(s)
        w == S_write(s, resolve_with_option(value, pos, resolver))
    IN IF w.res.ok THEN [s |-> w.s, res |-> Ok(pos)] ELSE w

Adapter_resolve_aligned_option(ad, value, resolver) ==
    Forward(ad, "resolve_aligned", <<value, resolver>>,
            S_resolve_aligned_option(ad.serializer, value, resolver))

Adapter_resolve_unsized_aligned(ad, value, to, metadata_resolver) ==
    Forward(ad, "resolve_unsized_aligned", <<value, to, metadata_resolver>>,
            S_resolve_unsized_aligned(ad.serializer, value, to, metadata_resolver))

\* ------------------------------------------------------------ the pass
\* Inputs of the primitive calls.
PrimBytes == {<<7>>, Rep(7, 2 * ReprSize)}
Paddings == {3}
Aligns == {2}
PrimStrings == {Rep(98, 1)}
\* Positions a caller passes to add_interned.
Positions == {0, 9}
\* The contents the registry's operations are called with directly, and the
\* fields of a pass that also makes every primitive call.
RegStrings == {Rep(98, 1), Rep(97, INLINE_CAPACITY + 1), Rep(98, INLINE_CAPACITY + 2)}
AdapterStrings == {Rep(98, 1), Rep(97, INLINE_CAPACITY + 1)}

\* No validation has begun; the archive has not been tampered with.
Validator_idle == [state |-> "idle", tampered |-> 0]

Init ==
    /\ adapter = Adapter_default
    /\ fields = <<>>
    /\ unsized_writes = <<>>
    /\ prims = 0
    /\ archive = None
    /\ last = [op |-> "default", args |-> <<>>, res |-> Ok(Unit), calls |-> <<>>]
    /\ options = {}
    /\ released = None
    /\ passes = 0
    /\ validator = Validator_idle

\* The adapter and the record of the call, after a handler returned r.
Returned(op, args, r) ==
    /\ archive = None
    /\ adapter' = r.ad
    /\ archive' = archive
    /\ UNCHANGED <<options, released, passes, validator>>
    /\ last' = [op |-> op, args |-> args, res |-> r.res, calls |-> r.calls]

\* The serialize_unsized writes among a handler's delegated calls.
WritesOf(value, calls) ==
    IF \E i \in 2..Len(calls) : calls[i].op = "write" /\ calls[i].res.ok
    THEN LET i == CHOOSE i \in 2..Len(calls) : calls[i].op = "write" /\ calls[i].res.ok
         IN <<[value |-> value, pos |-> calls[i - 1].res]>>
    ELSE <<>>

\* Intern::serialize_with on the next field of the value being encoded.
SerializeWith(s) ==
    /\ Len(fields) < MaxFields
    /\ LET r == serialize_with(adapter, s)
       IN /\ Returned("serialize_with", <<s>>, r)
          /\ fields' = IF r.res.ok
                       THEN Append(fields, [value |-> s, resolver |-> r.res.val, slot |-> None])
                       ELSE fields
          /\ unsized_writes' = unsized_writes \o WritesOf(s, r.calls)
    /\ UNCHANGED prims

\* The enclosing value places field i: resolve_aligned, which calls
\* Intern::resolve_with at the serializer's position.
ResolveAligned(i) ==
    /\ i \notin options
    /\ fields[i].slot = None
    /\ S_pos(adapter.serializer) % AlignOf("ArchivedInternedString") = 0
    /\ LET r == Adapter_resolve_aligned(adapter, fields[i].value, fields[i].resolver)
       IN /\ Returned("resolve_aligned", <<fields[i].value, fields[i].resolver>>, r)
          /\ fields' = IF r.res.ok
                       THEN [fields EXCEPT ![i].slot = Some(r.res.val)]
                       ELSE fields
    /\ UNCHANGED <<unsized_writes, prims>>

\* Intern::serialize_with on the next field, an Option<String>.
SerializeWithOption(o) ==
    /\ Len(fields) < MaxFields
    /\ archive = None
    /\ \E r \in {serialize_with_option(adapter, o)} :
          /\ adapter' = r.ad
          /\ last' = [op |-> "serialize_with_option", args |-> <<o>>,
                      res |-> r.res, calls |-> r.calls]
          /\ fields' = IF r.res.ok
                       THEN Append(fields, [value |-> o, resolver |-> r.res.val, slot |-> None])
                       ELSE fields
          /\ options' = IF r.res.ok THEN options \cup {Len(fields) + 1} ELSE options
          /\ unsized_writes' =
                IF o = None THEN unsized_writes
                ELSE unsized_writes \o WritesOf(o[1], r.calls)
    /\ UNCHANGED <<prims, archive, released, passes, validator>>

\* The enclosing value places the Option field i.
ResolveAlignedOption(i) ==
    /\ i \in options
    /\ fields[i].slot = None
    /\ S_pos(adapter.serializer) % AlignOf("ArchivedInternedString") = 0
    /\ LET r == Adapter_resolve_aligned_option(adapter, fields[i].value, fields[i].resolver)
       IN /\ Returned("resolve_aligned_option", <<fields[i].value, fields[i].resolver>>, r)
          /\ fields' = IF r.res.ok
                       THEN [fields EXCEPT ![i].slot = Some(r.res.val)]
                       ELSE fields
    /\ UNCHANGED <<unsized_writes, prims>>

AlignFor(U) ==
    /\ Returned("align_for", <<U>>, Adapter_align_for(adapter, U))
    /\ UNCHANGED <<fields, unsized_writes, prims>>

\* A primitive call that changes the serializer: counted, to bound the pass.
Prim(op, args, r) ==
    /\ prims < MaxPrims
    /\ prims' = prims + 1
    /\ Returned(op, args, r)
    /\ UNCHANGED <<fields, unsized_writes>>

\* A query: nothing but its result.
Query(op, args, r) ==
    /\ Returned(op, args, r)
    /\ UNCHANGED <<fields, unsized_writes, prims>>

Write(bytes) == Prim("write", <<bytes>>, Adapter_write(adapter, bytes))

Pad(padding) == Prim("pad", <<padding>>, Adapter_pad(adapter, padding))

Align(align) == Prim("align", <<align>>, Adapter_align(adapter, align))

ResolveUnsizedAligned(value, to) ==
    /\ S_pos(adapter.serializer) % OFFSET_BYTES = 0
    /\ Prim("resolve_unsized_aligned", <<value, to, Unit>>,
            Adapter_resolve_unsized_aligned(adapter, value, to, Unit))

PushScratch(layout) ==
    Prim("push_scratch", <<layout>>, Adapter_push_scratch(adapter, layout))

PopScratch(ptr, layout) ==
    Prim("pop_scratch", <<ptr, layout>>, Adapter_pop_scratch(adapter, ptr, layout))

AddSharedPtr(value) ==
    Prim("add_shared_ptr", <<value, S_pos(adapter.serializer)>>,
         Adapter_add_shared_ptr(adapter, value, S_pos(adapter.serializer)))

Pos == Query("pos", <<>>, Adapter_pos(adapter))

GetSharedPtr(value) ==
    Query("get_shared_ptr", <<value>>, Adapter_get_shared_ptr(adapter, value))

GetInterned(value) ==
    Query("get_interned", <<value>>, Adapter_get_interned(adapter, value))

\* serialize_interned called on the adapter for any content.
SerializeInterned(value) ==
    /\ prims < MaxPrims
    /\ prims' = prims + 1
    /\ LET r == serialize_interned(adapter, value)
       IN /\ Returned("serialize_interned", <<value>>, r)
          /\ unsized_writes' = unsized_writes \o WritesOf(value, r.calls)
    /\ UNCHANGED fields

\* add_interned called on the adapter without a lookup.
AddInterned(value, pos) ==
    Prim("add_interned", <<value, pos>>, Adapter_add_interned(adapter, value, pos))

\* Mutant of into_serializer: the registry is handed out with the serializer.
IntoSerializer_releases ==
    /\ archive = None
    /\ archive' = Some(into_components(adapter)[1].buf)
    /\ released' = Some(into_components(adapter)[2])
    /\ last' = [op |-> "into_serializer", args |-> <<>>, res |-> Ok(Unit), calls |-> <<>>]
    /\ UNCHANGED <<adapter, fields, unsized_writes, prims>>
    /\ UNCHANGED <<options, passes, validator>>

\* InternSerializerAdapter::into_serializer (and the wrapped serializer's
\* into_inner): the pass ends and the buffer is the archive.
IntoSerializer ==
    /\ archive = None
    /\ archive' = Some(into_serializer(adapter).buf)
    /\ last' = [op |-> "into_serializer", args |-> <<>>, res |-> Ok(Unit), calls |-> <<>>]
    /\ UNCHANGED <<adapter, fields, unsized_writes, prims>>
    /\ UNCHANGED <<options, released, passes, validator>>

\* InternSerializerAdapter::into_components: the pass ends, the buffer is the
\* archive and the caller holds the registry.
IntoComponents ==
    /\ archive = None
    /\ archive' = Some(into_components(adapter)[1].buf)
    /\ released' = Some(into_components(adapter)[2])
    /\ last' = [op |-> "into_components", args |-> <<>>, res |-> Ok(Unit), calls |-> <<>>]
    /\ UNCHANGED <<adapter, fields, unsized_writes, prims>>
    /\ UNCHANGED <<options, passes, validator>>

\* The next pass begins on the adapter ad; on a fresh serializer it has no
\* fields, slots or writes yet.
Begin(op, args, ad) ==
    /\ IsSome(archive)
    /\ passes < MaxPasses
    /\ passes' = passes + 1
    /\ adapter' = ad
    /\ archive' = None
    /\ last' = [op |-> op, args |-> args, res |-> Ok(Unit), calls |-> <<>>]
    /\ IF ad.serializer = S_default
       THEN fields' = <<>> /\ options' = {} /\ unsized_writes' = <<>>
       ELSE UNCHANGED <<fields, options, unsized_writes>>
    /\ UNCHANGED <<prims, validator>>

\* InternSerializerAdapter::default().
Default ==
    /\ Begin("default", <<>>, Adapter_default)
    /\ UNCHANGED released

\* InternSerializerAdapter::new with a serializer and a registry the caller
\* holds: a new one, or the one the last adapter was consumed into.
New(serializer, intern_registry) ==
    /\ Begin("new", <<serializer, intern_registry>>,
             Adapter_new(serializer, intern_registry))
    /\ released' = IF released = Some(intern_registry) THEN None ELSE released

\* The serializers and registries the caller can pass to new.
HeldSerializers == {S_default, into_serializer(adapter)}
HeldRegistries ==
    {Map_default} \cup (IF IsSome(released) THEN {released[1]} ELSE {})

\* ------------------------------------------ the archive, untrusted
\* The archive reaches the validator through an untrusted channel: a byte
\* of string data, or the length or the offset of an out-of-line slot, may
\* have been changed.
TamperLens == {2 * ReprSize, 255}
TamperOffsets == {-64, -4}

Overwrite(bytes, at, new) ==
    [k \in 1..Len(bytes) |->
        IF k \in (at + 1)..(at + Len(new)) THEN new[k - at] ELSE bytes[k]]

\* The positions of the bytes of the strings: inline in the slot, or at the
\* offset the field was resolved with.
StringData ==
    UNION { LET at == IF Len(fields[i].value) <= INLINE_CAPACITY
                      THEN fields[i].slot[1] ELSE fields[i].resolver.pos
            IN (at + 1)..(at + Len(fields[i].value))
            : i \in {j \in 1..Len(fields) : IsSome(fields[j].slot)} }

Tamper(bytes) ==
    /\ IsSome(archive)
    /\ validator.state = "idle"
    /\ validator.tampered < MaxTamper
    /\ archive' = Some(bytes)
    /\ validator' = [validator EXCEPT !.tampered = @ + 1]
    /\ last' = [op |-> "tamper", args |-> <<>>, res |-> Ok(Unit), calls |-> <<>>]
    /\ UNCHANGED <<adapter, fields, unsized_writes, prims, options, released, passes>>

\* A byte of string data becomes 0xFF, which no UTF-8 sequence contains.
CorruptData(k) ==
    /\ IsSome(archive)
    /\ k \in StringData
    /\ Tamper(Overwrite(archive[1], k - 1, <<255>>))

OutOfLineSlots ==
    {i \in 1..Len(fields) :
        IsSome(fields[i].slot) /\ Len(fields[i].value) > INLINE_CAPACITY}

SetLength(i, len) ==
    /\ IsSome(archive)
    /\ i \in OutOfLineSlots
    /\ Tamper(Overwrite(archive[1], fields[i].slot[1], to_le_bytes(len, OFFSET_BYTES)))

SetOffset(i, offset) ==
    /\ IsSome(archive)
    /\ i \in OutOfLineSlots
    /\ Tamper(Overwrite(archive[1], fields[i].slot[1] + OFFSET_BYTES,
                        to_le_bytes(offset, OFFSET_BYTES)))

\* --------------------------------------------------- the validation pass
RECURSIVE Ascending(_)
Ascending(S) ==
    IF S = {} THEN <<>>
    ELSE LET m == CHOOSE x \in S : \A y \in S : x <= y
         IN <<m>> \o Ascending(S \ {m})

\* The positions of the archive's Intern slots, in the order the fields of
\* the archived value are checked.
SlotPositions ==
    Ascending({fields[i].slot[1] : i \in {j \in 1..Len(fields) : IsSome(fields[j].slot)}})

\* The check of the archived value begins: the context is made for the
\* bytes and the root object, whose first slot is the lowest one.
BeginCheck ==
    /\ IsSome(archive)
    /\ validator.state = "idle"
    /\ SlotPositions # <<>>
    /\ validator' = [state |-> "checking", tampered |-> validator.tampered,
                     ctx |-> Ctx_root(archive[1], SlotPositions[1]),
                     todo |-> SlotPositions, accepted |-> {}, visits |-> <<>>]
    /\ last' = [op |-> "check_archived_root", args |-> <<>>, res |-> Ok(Unit), calls |-> <<>>]
    /\ UNCHANGED <<adapter, fields, unsized_writes, prims, archive, options, released, passes>>

\* The call of str::check_bytes among the calls of one check_bytes, if any:
\* the pointer, whether it was reached as a shared pointer, and the outcome.
StrChecks(calls) ==
    LET hits == {k \in 1..Len(calls) : calls[k].target = "str"}
    IN [n \in 1..Cardinality(hits) |->
           LET c == calls[CHOOSE k \in hits : TRUE]
           IN [addr |-> c.args[1].addr, len |-> c.args[1].len,
               shared |-> Len(calls) > 1, ok |-> c.res.ok]]

\* check_bytes on the next slot; its error (the `?` of the enclosing
\* check) ends the validation.
CheckBytes ==
    /\ validator.state = "checking"
    /\ LET value == Head(validator.todo)
           r == check_bytes(validator.ctx, archive[1], value)
       IN /\ validator' =
                 [validator EXCEPT
                    !.ctx = r.ctx,
                    !.visits = @ \o StrChecks(r.calls),
                    !.todo = IF r.res.ok THEN Tail(@) ELSE @,
                    !.accepted = IF r.res.ok THEN @ \cup {value} ELSE @,
                    !.state = IF ~r.res.ok THEN "rejected"
                              ELSE IF Tail(validator.todo) = <<>> THEN "accepted"
                              ELSE "checking"]
          /\ last' = [op |-> "check_bytes", args |-> <<value>>, res |-> r.res,
                      calls |-> r.calls]
    /\ UNCHANGED <<adapter, fields, unsized_writes, prims, archive, options, released, passes>>

\* str::make_ascii_uppercase, a safe in-place mutation of a &mut str.
make_ascii_uppercase(bytes) ==
    [i \in 1..Len(bytes) |-> IF bytes[i] \in 97..122 THEN bytes[i] - 32 ELSE bytes[i]]

\* ArchivedInternedString::pin_mut_str on the archived slot of field i: the
\* caller gets the string's bytes as Pin<&mut str> (str is Unpin) and
\* changes them in place.
pin_mut_str(buf, pos) ==
    LET p == as_ptr(buf, pos)
        new == make_ascii_uppercase(as_str(buf, pos))
    IN [k \in 1..Len(buf) |->
           IF k \in (p + 1)..(p + Len(new)) THEN new[k - p] ELSE buf[k]]

PinMutStr(i) ==
    /\ IsSome(archive)
    /\ IsSome(fields[i].slot)
    /\ archive' = Some(pin_mut_str(archive[1], fields[i].slot[1]))
    /\ last' = [op |-> "pin_mut_str", args |-> <<i>>, res |-> Ok(Unit), calls |-> <<>>]
    /\ UNCHANGED <<adapter, fields, unsized_writes, prims>>
    /\ UNCHANGED <<options, released, passes, validator>>

\* The encode pass over fields drawn from pool: Intern fields serialized and
\* placed.
PassNext(pool) ==
    \/ \E s \in pool : SerializeWith(s)
    \/ \E i \in 1..Len(fields) : ResolveAligned(i)
    \/ \E U \in Types : AlignFor(U)

\* The primitive calls of Serializer, ScratchSpace and SharedSerializeRegistry.
PrimNext ==
    \/ \E bytes \in PrimBytes : Write(bytes)
    \/ \E padding \in Paddings : Pad(padding)
    \/ \E align \in Aligns : Align(align)
    \/ \E value \in PrimStrings : ResolveUnsizedAligned(value, 0)
    \/ \E layout \in Layouts : PushScratch(layout)
    \/ \E layout \in Layouts : PopScratch(0, layout)
    \/ \E value \in SharedPtrs : AddSharedPtr(value)
    \/ Pos
    \/ \E value \in SharedPtrs : GetSharedPtr(value)

\* The registry's operations, called on the adapter.
RegistryNext(pool) ==
    \/ \E value \in pool : GetInterned(value)
    \/ \E value \in pool : SerializeInterned(value)
    \/ \E value \in pool, pos \in Positions : AddInterned(value, pos)

\* One encode pass with Intern fields among other bytes, ended by
\* into_serializer.
Next ==
    \/ PassNext(Strings)
    \/ \E bytes \in PrimBytes : Write(bytes)
    \/ IntoSerializer

Spec == Init /\ [][Next]_vars

\* The pass, then the archive read and written through its slots.
NextArchived ==
    \/ Next
    \/ \E i \in 1..Len(fields) : PinMutStr(i)

SpecArchived == Init /\ [][NextArchived]_vars

\* The pass with the registry's operations called directly between fields.
NextRegistry ==
    \/ PassNext(RegStrings)
    \/ RegistryNext(RegStrings)

SpecRegistry == Init /\ [][NextRegistry]_vars

\* Every operation of the adapter, in any order.
NextAdapter ==
    \/ PassNext(AdapterStrings)
    \/ PrimNext
    \/ \E value \in AdapterStrings : AddInterned(value, 0)

SpecAdapter == Init /\ [][NextAdapter]_vars

\* A pass over plain and optional Intern fields.
OptStrings == {Rep(98, 1), Rep(97, INLINE_CAPACITY + 1)}
OptionFields ==
    {None, Some(Rep(98, 1)), Some(Rep(97, INLINE_CAPACITY + 1)),
     Some(Rep(98, INLINE_CAPACITY + 2))}

NextOption ==
    \/ PassNext(OptStrings)
    \/ \E o \in OptionFields : SerializeWithOption(o)
    \/ \E i \in 1..Len(fields) : ResolveAlignedOption(i)
    \/ IntoSerializer

SpecOption == Init /\ [][NextOption]_vars

\* Passes one after another: each adapter is made by default or new and
\* consumed by into_serializer or into_components.
NextPasses ==
    \/ PassNext(AdapterStrings)
    \/ IntoSerializer
    \/ IntoComponents
    \/ Default
    \/ \E serializer \in HeldSerializers, intern_registry \in HeldRegistries :
          New(serializer, intern_registry)

SpecPasses == Init /\ [][NextPasses]_vars

\* The pass, then the archive, possibly tampered with, validated.
NextValidate ==
    \/ PassNext(RegStrings)
    \/ IntoSerializer
    \/ \E k \in 1..Capacity : CorruptData(k)
    \/ \E i \in 1..Len(fields), len \in TamperLens : SetLength(i, len)
    \/ \E i \in 1..Len(fields), offset \in TamperOffsets : SetOffset(i, offset)
    \/ BeginCheck
    \/ CheckBytes

SpecValidate == Init /\ [][NextValidate]_vars

\* resolve_from_str as a function of its arguments: slots far into a large
\* buffer, shared bytes near its start, in archives of either width.
WideStrings == {Rep(97, 3), Rep(97, INLINE_CAPACITY), Rep(97, INLINE_CAPACITY + 1)}
WidePositions == {8, 16, 32760, 32768, 32776, 40000, 65536, 65544}
WideTargets == {0, 4, 8}

ResolveFromStr(value, pos, resolver, w) ==
    /\ last' = [op |-> "resolve_from_str", args |-> <<value, pos, resolver, w>>,
                res |-> resolve_from_str_sized(value, pos, resolver, w),
                calls |-> <<>>]
    /\ UNCHANGED <<adapter, fields, unsized_writes, prims, archive>>
    /\ UNCHANGED <<options, released, passes, validator>>

NextResolve ==
    \E value \in WideStrings, pos \in WidePositions, t \in WideTargets,
       w \in ArchiveWidths :
        /\ t + Len(value) <= pos
        /\ ResolveFromStr(value, pos, InternedStringResolver(t), w)

SpecResolve == Init /\ [][NextResolve]_vars

\* The pass with lookups and serialize_interned called directly between
\* fields: the registry is modified through serialize_interned only.
NextIntern ==
    \/ PassNext(RegStrings)
    \/ \E value \in RegStrings : GetInterned(value)
    \/ \E value \in RegStrings : SerializeInterned(value)

SpecIntern == Init /\ [][NextIntern]_vars

\* serialize_interned called for any content, the empty one and short ones
\* included, among fields and other writes that fill the buffer.
InternContents == RegStrings \cup {<<>>}
LongFields == {s \in RegStrings : Len(s) > INLINE_CAPACITY}

NextContents ==
    \/ PassNext(LongFields)
    \/ \E value \in InternContents : GetInterned(value)
    \/ \E value \in InternContents : SerializeInterned(value)
    \/ \E bytes \in PrimBytes : Write(bytes)

SpecContents == Init /\ [][NextContents]_vars

\* ================================================================ claims
buf == adapter.serializer.buf
value_to_pos == adapter.intern_registry.value_to_pos
IsLong(s) == Len(s) > INLINE_CAPACITY
Occurrences(s) == {i \in 1..Len(fields) : fields[i].value = s}
Resolved == {i \in 1..Len(fields) : IsSome(fields[i].slot)}
SlotOf(i) == fields[i].slot[1]
WritesFor(s) == {j \in 1..Len(unsized_writes) : unsized_writes[j].value = s}

RECURSIVE SumLen(_)
SumLen(S) ==
    IF S = {} THEN 0
    ELSE LET s == CHOOSE s \in S : TRUE IN Len(s) + SumLen(S \ {s})

RECURSIVE WrittenBytes(_)
WrittenBytes(ws) ==
    IF ws = <<>> THEN 0 ELSE Len(ws[1].value) + WrittenBytes(Tail(ws))

\* C1: a long string serialized with Intern (any number of times, so also
\* k >= 2 times) in one pass has its bytes written exactly once; those bytes
\* are in the buffer at the written offset; every resolved slot of it decodes
\* to the string and points at that same offset; and the bytes spent on
\* out-of-line data are the sum of the lengths of the distinct long strings.
C1_InternedOnce ==
    /\ \A s \in Strings :
          (IsLong(s) /\ Occurrences(s) # {}) =>
             /\ Cardinality(WritesFor(s)) = 1
             /\ LET at == unsized_writes[CHOOSE j \in WritesFor(s) : TRUE].pos
                IN /\ SubSeq(buf, at + 1, at + Len(s)) = s
                   /\ \A i \in Occurrences(s) \cap Resolved :
                         /\ as_str(buf, SlotOf(i)) = s
                         /\ as_ptr(buf, SlotOf(i)) = at
    /\ WrittenBytes(unsized_writes)
          = SumLen({s \in Strings : IsLong(s) /\ Occurrences(s) # {}})

\* Two resolved slots of the same long string.
C1_Witness ==
    \E i, j \in Resolved :
        i # j /\ fields[i].value = fields[j].value /\ IsLong(fields[i].value)

\* C2: every slot of the finished archive, read in place and deserialized,
\* gives the string of the field it was resolved for (field i from slot i).
C2_RoundTrip ==
    IsSome(archive) =>
        \A i \in Resolved : deserialize_with(archive[1], SlotOf(i)) = fields[i].value

\* A finished archive with a short and a long field, both resolved.
C2_Witness ==
    /\ IsSome(archive)
    /\ \E i, j \in Resolved : IsLong(fields[i].value) /\ ~IsLong(fields[j].value)

\* C3 (frame): serializing a string of at most INLINE_CAPACITY bytes makes no
\* delegated call (no lookup, no insertion, no write), leaves the adapter
\* (registry and serializer) as it was and returns the inline resolver.
C3_InlineFrame ==
    (last'.op = "serialize_with" /\ ~IsLong(last'.args[1])) =>
        /\ last'.calls = <<>>
        /\ adapter' = adapter
        /\ unsized_writes' = unsized_writes
        /\ last'.res = Ok(InternedStringResolver(0))

\* C3 (decode): a resolved slot of such a string is the Inline variant,
\* decodes to the string exactly, and the registry has no entry for it.
C3_InlineDecodes ==
    /\ \A i \in Resolved :
          ~IsLong(fields[i].value) =>
              /\ is_inline(SlotBytes(buf, SlotOf(i)))
              /\ as_str(buf, SlotOf(i)) = fields[i].value
    /\ \A s \in DOMAIN value_to_pos : IsLong(s)

C3_InlineNoRegistry == []C3_InlineDecodes /\ [][C3_InlineFrame]_vars

\* The empty string and a string of exactly INLINE_CAPACITY bytes, both
\* serialized and resolved.
C3_Witness ==
    \E i, j \in Resolved :
        Len(fields[i].value) = 0 /\ Len(fields[j].value) = INLINE_CAPACITY

\* The registry's answer for a content.
Lookup(reg, c) == IF c \in DOMAIN reg THEN Some(reg[c]) ELSE None

\* C4: add_interned for a content the registry already holds (recorded by an
\* earlier add_interned or serialize_interned, whatever happened since) fails
\* with InternError(DuplicateKeyAdded) for every position, and changes
\* nothing: the recorded offset and every other entry stay as they were.
C4_DuplicateStep ==
    (last'.op = "add_interned" /\ last'.args[1] \in DOMAIN value_to_pos) =>
        /\ last'.res = Err(InternError("DuplicateKeyAdded"))
        /\ adapter' = adapter
        /\ Lookup(value_to_pos', last'.args[1]) = Some(value_to_pos[last'.args[1]])

C4_DuplicateFailsFast == [][C4_DuplicateStep]_vars

\* add_interned failed for a content recorded at another position.
C4_Witness ==
    /\ last.op = "add_interned"
    /\ ~last.res.ok
    /\ last.args[1] \in DOMAIN value_to_pos
    /\ value_to_pos[last.args[1]] # last.args[2]

\* A step of serialize_interned for content c, called directly or by
\* serialize_from_str for a long string.
InternStep(c) ==
    /\ \/ last'.op = "serialize_interned"
       \/ last'.op = "serialize_with" /\ IsLong(c)
    /\ last'.args = <<c>>

ResultPos(res) == IF last'.op = "serialize_with" THEN res.val.pos ELSE res.val

\* C5: serialize_interned(c) with c recorded returns the recorded offset and
\* makes one lookup and nothing else: position, bytes and registry are
\* unchanged.  With c absent, when the write succeeds, c is written once at
\* the end of the buffer, the write's offset is recorded for c and returned.
C5_InternStep ==
    \A c \in Strings :
        InternStep(c) =>
            IF c \in DOMAIN value_to_pos
            THEN /\ last'.res.ok
                 /\ ResultPos(last'.res) = value_to_pos[c]
                 /\ adapter' = adapter
                 /\ Len(last'.calls) = 1
                 /\ last'.calls[1].op = "get_interned"
            ELSE last'.res.ok =>
                 /\ buf' = buf \o c
                 /\ Cardinality({k \in 1..Len(last'.calls) : last'.calls[k].op = "write"}) = 1
                 /\ \E k \in 1..Len(last'.calls) :
                       /\ last'.calls[k].op = "write"
                       /\ last'.calls[k].args = <<c>>
                       /\ last'.calls[k - 1].op = "pos"
                       /\ last'.calls[k - 1].res = ResultPos(last'.res)
                 /\ ResultPos(last'.res) = Len(buf)
                 /\ value_to_pos' =
                       [v \in DOMAIN value_to_pos \cup {c} |->
                           IF v = c THEN Len(buf) ELSE value_to_pos[v]]
                 /\ adapter'.serializer.scratch = adapter.serializer.scratch
                 /\ adapter'.serializer.shared = adapter.serializer.shared

C5_HitWritesNothing == [][C5_InternStep]_vars

\* serialize_interned hit an entry that an earlier call wrote into a buffer
\* that was not empty.
C5_Witness ==
    /\ last.op = "serialize_interned"
    /\ Len(last.calls) = 1
    /\ last.res.ok
    /\ last.res.val > 0
    /\ Cardinality(DOMAIN value_to_pos) >= 2

\* C6: no step removes an entry or changes its offset, and once c is
\* recorded at p every get_interned(c) and serialize_interned(c) returns p.
C6_FirstWriterStep ==
    /\ \A c \in DOMAIN value_to_pos :
          c \in DOMAIN value_to_pos' /\ value_to_pos'[c] = value_to_pos[c]
    /\ \A c \in DOMAIN value_to_pos :
          /\ (last'.op = "get_interned" /\ last'.args = <<c>>) =>
                last'.res = Some(value_to_pos[c])
          /\ InternStep(c) =>
                (last'.res.ok /\ ResultPos(last'.res) = value_to_pos[c])

C6_FirstWriterWins == [][C6_FirstWriterStep]_vars

\* A content recorded first is served again after another was interned.
C6_Witness ==
    /\ last.op = "serialize_with"
    /\ Len(last.calls) = 1
    /\ last.res.ok
    /\ Cardinality(DOMAIN value_to_pos) >= 2
    /\ \E c \in DOMAIN value_to_pos : value_to_pos[c] > last.res.val.pos

\* C10: get_interned changes nothing, returns the registry's entry (or
\* None), makes one lookup on the registry, and asked again at once for the
\* same content returns the same answer.
C10_LookupStep ==
    last'.op = "get_interned" =>
        /\ adapter' = adapter
        /\ last'.res = Lookup(value_to_pos, last'.args[1])
        /\ Len(last'.calls) = 1
        /\ last'.calls[1].target = "T"
        /\ (last.op = "get_interned" /\ last.args = last'.args) => last'.res = last.res

C10_LookupPure == [][C10_LookupStep]_vars

\* A lookup that found its content, and one that did not.
C10_Witness ==
    /\ last.op = "get_interned"
    /\ IsSome(last.res)
    /\ \E c \in RegStrings : c \notin DOMAIN value_to_pos

\* Resolved slots i and j of the archive share one out-of-line region.
Shares(bytes, i, j) ==
    /\ i # j
    /\ ~is_inline(SlotBytes(bytes, SlotOf(i)))
    /\ ~is_inline(SlotBytes(bytes, SlotOf(j)))
    /\ as_ptr(bytes, SlotOf(i)) = as_ptr(bytes, SlotOf(j))

\* C7: no operation of ArchivedInternedString changes the string bytes: what
\* a slot of the archive reads is never changed by a step, in particular not
\* by an operation on another slot that shares its out-of-line region.
C7_ArchivedStep ==
    (IsSome(archive) /\ IsSome(archive')) =>
        \A i, j \in Resolved :
            Shares(archive[1], i, j) =>
                as_str(archive'[1], SlotOf(i)) = as_str(archive[1], SlotOf(i))

C7_SharedBytesImmutable == [][C7_ArchivedStep]_vars

\* The primitive calls of the adapter.
PrimOps ==
    { "pos", "write", "pad", "align", "align_for", "resolve_aligned",
      "resolve_unsized_aligned", "push_scratch", "pop_scratch",
      "get_shared_ptr", "add_shared_ptr" }
Infallible == {"pos", "get_shared_ptr", "get_interned"}

\* The wrapped serializer driven directly with the same call.
Direct(s, op, args) ==
    CASE op = "pos" -> [s |-> s, res |-> S_pos(s)]
      [] op = "write" -> S_write(s, args[1])
      [] op = "pad" -> S_pad(s, args[1])
      [] op = "align" -> S_align(s, args[1])
      [] op = "align_for" -> S_align_for(s, args[1])
      [] op = "resolve_aligned" -> S_resolve_aligned(s, args[1], args[2])
      [] op = "resolve_unsized_aligned" ->
            S_resolve_unsized_aligned(s, args[1], args[2], args[3])
      [] op = "push_scratch" -> S_push_scratch(s, args[1])
      [] op = "pop_scratch" -> S_pop_scratch(s, args[1], args[2])
      [] op = "get_shared_ptr" -> [s |-> s, res |-> S_get_shared_ptr(s, args[1])]
      [] op = "add_shared_ptr" -> S_add_shared_ptr(s, args[1], args[2])

\* C8: a primitive call on the adapter makes exactly one call on the wrapped
\* serializer, the same call with the same arguments; leaves the wrapped
\* serializer (position, bytes, scratch, shared pointers) as the direct call
\* leaves it; returns the direct call's result, an error tagged
\* SerializerError; and leaves the intern registry alone.
C8_DelegationStep ==
    last'.op \in PrimOps =>
        LET d == Direct(adapter.serializer, last'.op, last'.args)
        IN /\ Len(last'.calls) = 1
           /\ last'.calls[1].target = "S"
           /\ last'.calls[1].op = last'.op
           /\ last'.calls[1].args = last'.args
           /\ last'.calls[1].res = d.res
           /\ adapter'.serializer = d.s
           /\ adapter'.intern_registry = adapter.intern_registry
           /\ IF last'.op \in Infallible
              THEN last'.res = d.res
              ELSE /\ last'.res.ok = d.res.ok
                   /\ d.res.ok => last'.res.val = d.res.val
                   /\ ~d.res.ok => last'.res.err = SerializerError(d.res.err)

C8_PureDelegation == [][C8_DelegationStep]_vars

\* A scratch allocation released through the adapter, in a pass that has
\* interned a string.
C8_Witness ==
    /\ last.op = "pop_scratch"
    /\ last.res.ok
    /\ DOMAIN value_to_pos # {}

\* C9: when a call the adapter delegated failed, the adapter's call failed
\* too, with that error tagged by its origin: SerializerError for the wrapped
\* serializer, InternError for the registry.
C9_ErrorsTagged ==
    \A k \in 1..Len(last.calls) :
        LET c == last.calls[k]
        IN (c.op \notin Infallible /\ ~c.res.ok) =>
              /\ ~last.res.ok
              /\ last.res.err =
                    <<IF c.target = "S" THEN "SerializerError" ELSE "InternError",
                      c.res.err>>

\* The write inside serialize_interned failed and the field's serialize_with
\* returned the serializer's error.
C9_Witness ==
    /\ last.op = "serialize_with"
    /\ ~last.res.ok
    /\ last.res.err = SerializerError("Overflow")

\* C13: with the registry modified only through serialize_interned (called
\* directly or by a field's serialize_with), for any strings and any repeats,
\* no call fails with DuplicateKeyAdded and no add_interned it makes fails.
C13_NoDuplicateKey ==
    /\ (last.op \notin Infallible /\ ~last.res.ok) =>
           last.res.err # InternError("DuplicateKeyAdded")
    /\ \A k \in 1..Len(last.calls) :
           last.calls[k].op = "add_interned" => last.calls[k].res.ok

\* serialize_interned called for a content that a field had interned before.
C13_Witness ==
    /\ last.op = "serialize_interned"
    /\ last.res.ok
    /\ Len(last.calls) = 1
    /\ \E i \in 1..Len(fields) : fields[i].value = last.args[1]

\* Addresses the finished buffer may be mapped at by its reader.
Bases == {0, 4096, 65540}

\* The string read through the slot at pos when the buffer's first byte is
\* at address base: the slot's own address plus the stored offset.
MappedRead(bytes, base, pos) ==
    LET repr == SlotBytes(bytes, pos)
        target == (base + pos) + out_of_line_offset(repr)
    IN [k \in 1..repr_len(repr) |->
           LET at == (target + k - 1) - base
           IN IF at + 1 \in 1..Len(bytes) THEN bytes[at + 1] ELSE 255]

\* C15: an out-of-line slot resolved at pos with a resolver carrying offset t
\* stores the signed offset t - pos and the length of the value; read with
\* the buffer mapped at any base B it addresses B + t and yields the bytes of
\* the buffer from offset t, the same for every B.
C15_RelativeOffset ==
    \A i \in Resolved :
        IsLong(fields[i].value) =>
            LET pos == SlotOf(i)
                t == fields[i].resolver.pos
                repr == SlotBytes(buf, pos)
            IN /\ ~is_inline(repr)
               /\ out_of_line_offset(repr) = t - pos
               /\ repr_len(repr) = Len(fields[i].value)
               /\ \A base \in Bases :
                     /\ (base + pos) + out_of_line_offset(repr) = base + t
                     /\ MappedRead(buf, base, pos)
                           = SubSeq(buf, t + 1, t + Len(fields[i].value))

\* A resolved out-of-line slot whose shared bytes are not at offset 0.
C15_Witness ==
    \E i \in Resolved : IsLong(fields[i].value) /\ fields[i].resolver.pos > 0

\* C16: a step that resolves a slot as OutOfLine finds the bytes it refers
\* to already in the buffer, complete, ending at or before the slot's own
\* position, so the stored offset is negative; and no step of the pass
\* moves or rewrites a byte written before it (the buffer only grows).
C16_OrderStep ==
    /\ Len(buf') >= Len(buf)
    /\ SubSeq(buf', 1, Len(buf)) = buf
    /\ (last'.op = "resolve_aligned" /\ last'.res.ok /\ IsLong(last'.args[1])) =>
          LET value == last'.args[1]
              t == last'.args[2].pos
              pos == last'.res.val
          IN /\ t + Len(value) <= pos
             /\ pos <= Len(buf)
             /\ SubSeq(buf, t + 1, t + Len(value)) = value
             /\ ~is_inline(SlotBytes(buf', pos))
             /\ out_of_line_offset(SlotBytes(buf', pos)) < 0

C16_WriteBeforePlace == [][C16_OrderStep]_vars

\* An out-of-line slot placed after other bytes were written behind its
\* shared bytes.
C16_Witness ==
    /\ last.op = "resolve_aligned"
    /\ last.res.ok
    /\ IsLong(last.args[1])
    /\ last.res.val > last.args[2].pos + Len(last.args[1]) + ReprSize

\* C18 (write phase): serialize_with calls serialize_interned (whose first
\* call is the lookup) exactly for the values longer than INLINE_CAPACITY,
\* and returns the placeholder offset 0 for the others.
C18_SerializeStep ==
    (last'.op = "serialize_with" /\ last'.res.ok) =>
        /\ (last'.calls # <<>>) <=> IsLong(last'.args[1])
        /\ IsLong(last'.args[1]) =>
              /\ last'.calls[1].op = "get_interned"
              /\ last'.calls[1].args = last'.args
              /\ Lookup(value_to_pos', last'.args[1]) = Some(last'.res.val.pos)
        /\ ~IsLong(last'.args[1]) => last'.res.val.pos = 0

\* C18 (resolve phase): the slot of a field is OutOfLine exactly when its
\* write phase interned the value (the registry holds it), and then points
\* at the offset its resolver carries; an inline slot holds the value and
\* its length only, whatever offset the resolver carries.
C18_SlotsAgree ==
    \A i \in Resolved :
        LET value == fields[i].value
            pos == SlotOf(i)
            repr == SlotBytes(buf, pos)
        IN /\ ~is_inline(repr) <=> value \in DOMAIN value_to_pos
           /\ ~is_inline(repr) <=> IsLong(value)
           /\ ~is_inline(repr) =>
                 /\ pos + out_of_line_offset(repr) = fields[i].resolver.pos
                 /\ fields[i].resolver.pos = value_to_pos[value]
           /\ is_inline(repr) =>
                 /\ fields[i].resolver.pos = 0
                 /\ repr = value \o Zeros(INLINE_CAPACITY - Len(value)) \o <<Len(value)>>
                 /\ \A t \in Positions :
                       resolve_with(value, pos, InternedStringResolver(t)) = repr

C18_PhasesAgree == []C18_SlotsAgree /\ [][C18_SerializeStep]_vars

\* An out-of-line slot just placed, next to an inline slot of a string of
\* exactly INLINE_CAPACITY bytes.
C18_Witness ==
    /\ last.op = "resolve_aligned"
    /\ last.res.ok
    /\ IsLong(last.args[1])
    /\ \E j \in Resolved : Len(fields[j].value) = INLINE_CAPACITY

\* A field's content and resolver as options, and the position of its string
\* slot, for plain and optional fields alike.
Content(i) == IF i \in options THEN fields[i].value ELSE Some(fields[i].value)
ResolverOf(i) == IF i \in options THEN fields[i].resolver ELSE Some(fields[i].resolver)
StringSlot(i) == IF i \in options THEN SlotOf(i) + OptionSomeOffset ELSE SlotOf(i)
LongContent(i) == Content(i) # None /\ IsLong(Content(i)[1])

\* C14 (write phase): serializing None returns a None resolver, makes no
\* call and changes nothing; serializing Some(s) makes the calls, has the
\* effect on the adapter and returns the result (in Some) of Intern on s.
C14_OptionStep ==
    last'.op = "serialize_with_option" =>
        IF last'.args[1] = None
        THEN /\ last'.res = Ok(None)
             /\ last'.calls = <<>>
             /\ adapter' = adapter
             /\ unsized_writes' = unsized_writes
        ELSE LET r == serialize_with(adapter, last'.args[1][1])
             IN /\ adapter' = r.ad
                /\ last'.calls = r.calls
                /\ last'.res.ok = r.res.ok
                /\ r.res.ok => last'.res.val = Some(r.res.val)
                /\ ~r.res.ok => last'.res.err = r.res.err

\* C14 (slots): an optional field's slot carries the None tag and reads back
\* None, or the Some tag and reads back Some(s); equal long contents, plain
\* or optional, share one resolver offset, one write and one address.
C14_OptionSlots ==
    /\ \A i \in Resolved \cap options :
          IF fields[i].value = None
          THEN /\ fields[i].resolver = None
               /\ buf[SlotOf(i) + 1] = ArchivedOptionTag_None
               /\ deserialize_with_option(buf, SlotOf(i)) = None
          ELSE /\ buf[SlotOf(i) + 1] = ArchivedOptionTag_Some
               /\ deserialize_with_option(buf, SlotOf(i)) = fields[i].value
    /\ \A i \in 1..Len(fields) :
          LongContent(i) =>
              /\ Cardinality(WritesFor(Content(i)[1])) = 1
              /\ \A j \in 1..Len(fields) :
                    Content(j) = Content(i) =>
                        /\ ResolverOf(j) = ResolverOf(i)
                        /\ {i, j} \subseteq Resolved =>
                              as_ptr(buf, StringSlot(i)) = as_ptr(buf, StringSlot(j))

C14_OptionPreserved == []C14_OptionSlots /\ [][C14_OptionStep]_vars

\* A plain field and an optional field with the same long content, both
\* placed, in a finished archive.
C14_Witness ==
    /\ IsSome(archive)
    /\ \E i \in Resolved \cap options, j \in Resolved \ options :
           LongContent(i) /\ Content(i) = Content(j)

\* Every entry of the registry, and every offset a slot of the buffer is
\* (or is about to be) resolved with, was recorded for a write into the
\* adapter's own buffer.
EntriesOfThisPass ==
    /\ \A c \in DOMAIN value_to_pos :
          \E j \in WritesFor(c) : unsized_writes[j].pos = value_to_pos[c]
    /\ \A i \in 1..Len(fields) :
          IsLong(fields[i].value) =>
              \E j \in WritesFor(fields[i].value) :
                  unsized_writes[j].pos = fields[i].resolver.pos

C20_DiscardStep ==
    /\ last'.op = "into_serializer" => released' = released
    /\ last'.op = "default" => adapter'.intern_registry = Map_default
    /\ last'.op = "new" =>
          /\ adapter'.intern_registry = last'.args[2]
          /\ last'.args[2] # Map_default => released = Some(last'.args[2])
    /\ (EntriesOfThisPass /\ ~(last'.op = "new" /\ last'.args[2] # Map_default))
          => EntriesOfThisPass'

Visits(v, a) == {k \in 1..Len(v.visits) : v.visits[k].shared /\ v.visits[k].addr = a}
AddrState(v, a) ==
    IF a \notin DOMAIN v.ctx.shared THEN "NotStarted"
    ELSE IF \E k \in Visits(v, a) : v.visits[k].ok THEN "Finished"
    ELSE "Started"

\* C11 (state): the content at a shared address is checked at most once in
\* a validation, never before the address is registered; when the archive
\* is accepted, the region of every out-of-line slot was checked exactly
\* once, however many slots refer to it.
C11_VisitedOnce ==
    validator.state # "idle" =>
        /\ \A k \in 1..Len(validator.visits) :
              validator.visits[k].shared =>
                  /\ validator.visits[k].addr \in DOMAIN validator.ctx.shared
                  /\ Cardinality(Visits(validator, validator.visits[k].addr)) = 1
        /\ validator.state = "accepted" =>
              \A pos \in validator.accepted :
                  ~is_inline(SlotBytes(archive[1], pos)) =>
                      /\ Cardinality(Visits(validator, as_ptr(archive[1], pos))) = 1
                      /\ AddrState(validator, as_ptr(archive[1], pos)) = "Finished"

\* C11 (step): check_bytes on an out-of-line slot whose pointer is in
\* bounds: an address not registered is registered before str::check_bytes
\* is called; an address already registered is skipped, the slot accepted
\* and the context unchanged.  No address goes back to an earlier state.
C11_CheckStep ==
    (last'.op = "check_bytes" /\ last'.calls[1].op = "check_ptr"
        /\ last'.calls[1].res.ok) =>
        LET a == last'.calls[1].args[1] + last'.calls[1].args[2]
        IN /\ a \in DOMAIN validator'.ctx.shared
           /\ AddrState(validator, a) = "NotStarted" =>
                 /\ Len(last'.calls) >= 2
                 /\ last'.calls[2].op = "register_shared_ptr"
                 /\ last'.calls[2].res = Ok(TRUE)
                 /\ \A k \in 1..Len(last'.calls) : last'.calls[k].target = "str" => k > 2
                 /\ AddrState(validator', a) \in {"Started", "Finished"}
           /\ AddrState(validator, a) # "NotStarted" =>
                 /\ last'.res.ok
                 /\ \A k \in 1..Len(last'.calls) : last'.calls[k].target # "str"
                 /\ validator'.ctx = validator.ctx
                 /\ validator'.visits = validator.visits
                 /\ AddrState(validator', a) = AddrState(validator, a)
           /\ \A b \in DOMAIN validator.ctx.shared :
                 /\ b \in DOMAIN validator'.ctx.shared
                 /\ AddrState(validator, b) = "Finished" =>
                       AddrState(validator', b) = "Finished"

C11_ValidatedOnce == []C11_VisitedOnce /\ [][C11_CheckStep]_vars

\* An untampered archive accepted, with two out-of-line slots that refer to
\* one region.
C11_Witness ==
    /\ validator.state = "accepted"
    /\ validator.tampered = 0
    /\ \E p, q \in validator.accepted :
          /\ p # q
          /\ ~is_inline(SlotBytes(archive[1], p))
          /\ ~is_inline(SlotBytes(archive[1], q))
          /\ as_ptr(archive[1], p) = as_ptr(archive[1], q)
          /\ Cardinality(Visits(validator, as_ptr(archive[1], p))) = 1

\* C19: check_bytes on an out-of-line slot first bounds-checks the slot's
\* own offset and length against the buffer, whether or not the target
\* address is registered already; a pair that reaches outside the buffer
\* fails with a ContextError before any other call is made (the address is
\* not looked up, no byte is read as content), the slot is not accepted and
\* the validation ends.
C19_BoundsStep ==
    (last'.op = "check_bytes" /\ ~is_inline(SlotBytes(archive[1], last'.args[1]))) =>
        LET pos == last'.args[1]
            offset == out_of_line_offset(SlotBytes(archive[1], pos))
            len == repr_len(SlotBytes(archive[1], pos))
            outside == pos + offset < 0 \/ pos + offset + len > Len(archive[1])
        IN /\ last'.calls[1].op = "check_ptr"
           /\ last'.calls[1].args = <<pos, offset, len>>
           /\ outside =>
                 /\ ~last'.res.ok
                 /\ last'.res.err[1] = "ContextError"
                 /\ Len(last'.calls) = 1
                 /\ validator'.state = "rejected"
                 /\ validator'.accepted = validator.accepted
                 /\ validator'.ctx = validator.ctx
                 /\ validator'.visits = validator.visits

C19_EverySlotBoundsChecked == [][C19_BoundsStep]_vars

\* A slot whose length reaches past the end of the buffer was rejected
\* though its target address had been validated through an earlier slot.
C19_Witness ==
    /\ last.op = "check_bytes"
    /\ validator.state = "rejected"
    /\ last.res.err = ContextError("Overrun")
    /\ validator.accepted # {}
    /\ AddrState(validator, last.calls[1].args[1] + last.calls[1].args[2]) = "Finished"

\* C12 (state): no slot that check_bytes accepted reads bytes that are not
\* valid UTF-8, inline or out of line; a validation that met an error is
\* over, with that slot and every later one unaccepted.
C12_AcceptedIsUtf8 ==
    validator.state # "idle" =>
        /\ \A pos \in validator.accepted : Utf8Valid(as_str(archive[1], pos))
        /\ validator.state = "rejected" =>
              /\ validator.todo # <<>>
              /\ \A k \in 1..Len(validator.todo) : validator.todo[k] \notin validator.accepted

\* C12 (step): check_bytes leaves the buffer as it is, is never called
\* after an error, and its error ends the validation.
C12_AbortStep ==
    last'.op = "check_bytes" =>
        /\ archive' = archive
        /\ validator.state = "checking"
        /\ ~last'.res.ok => validator'.state = "rejected"

C12_RejectsInvalidUtf8 == []C12_AcceptedIsUtf8 /\ [][C12_AbortStep]_vars

\* C17: resolve_from_str stores an out-of-line offset only as it is: a
\* relative offset that does not fit the w-byte signed offset of the archive
\* is never put into the slot cut or wrapped modulo 2^(8w), so whatever slot
\* is stored reads back as out of line with the offset target - pos.
C17_OffsetNeverWrapped ==
    (last.op = "resolve_from_str" /\ Len(last.args[1]) > 2 * last.args[4] - 1) =>
        LET pos == last.args[2]
            t == last.args[3].pos
            w == last.args[4]
        IN /\ ~is_inline_sized(last.res, w)
           /\ out_of_line_offset_sized(last.res, w) = t - pos

\* The bytes of the entry (c, p) are in the buffer, written by a
\* serialize_unsized call that succeeded.
EntryWritten(c) ==
    LET p == value_to_pos[c]
    IN /\ p + Len(c) <= S_pos(adapter.serializer)
       /\ SubSeq(buf, p + 1, p + Len(c)) = c
       /\ \E j \in 1..Len(unsized_writes) :
             unsized_writes[j] = [value |-> c, pos |-> p]

Disjoint(c, d) ==
    \/ value_to_pos[c] + Len(c) <= value_to_pos[d]
    \/ value_to_pos[d] + Len(d) <= value_to_pos[c]

\* C21 as stated: after any serialize_interned calls every entry (c, p) has
\* the bytes of c in the buffer at p, p + len(c) is at most the serializer's
\* position, and distinct contents have distinct offsets and byte ranges
\* that do not overlap.
C21_RegistrySound ==
    /\ \A c \in DOMAIN value_to_pos : EntryWritten(c)
    /\ \A c, d \in DOMAIN value_to_pos :
          c # d => (value_to_pos[c] # value_to_pos[d] /\ Disjoint(c, d))

\* C21, amended: every entry (c, p) has the bytes of c in the buffer at p,
\* below the serializer's position; the byte ranges of distinct contents do
\* not overlap; and distinct contents have distinct offsets unless one of
\* them is empty (an Intern field never interns an empty content).
C21_RegistrySoundNonEmpty ==
    /\ \A c \in DOMAIN value_to_pos : EntryWritten(c)
    /\ \A c, d \in DOMAIN value_to_pos :
          c # d =>
             /\ Disjoint(c, d)
             /\ (c # <<>> /\ d # <<>>) => value_to_pos[c] # value_to_pos[d]
    /\ \A i \in 1..Len(fields) :
          IsLong(fields[i].value) =>
             /\ fields[i].value \in DOMAIN value_to_pos
             /\ fields[i].resolver.pos = value_to_pos[fields[i].value]

\* The empty content and another recorded at one offset, after a
\* serialize_interned call that failed.
C21_Witness ==
    /\ \E c, d \in DOMAIN value_to_pos : c # d /\ value_to_pos[c] = value_to_pos[d]
    /\ last.op \in {"serialize_interned", "serialize_with"}
    /\ ~last.res.ok

\* C22 (step): serialize_interned fails only for a content that is not
\* recorded, with the error of the failed write, tagged; it made no
\* add_interned call, the registry is as before and has no entry for the
\* content.
C22_FailStep ==
    \A c \in InternContents :
        (InternStep(c) /\ ~last'.res.ok) =>
            /\ c \notin DOMAIN value_to_pos
            /\ \E k \in 1..Len(last'.calls) :
                  /\ last'.calls[k].op = "write"
                  /\ last'.calls[k].args = <<c>>
                  /\ ~last'.calls[k].res.ok
                  /\ last'.res = Err(SerializerError(last'.calls[k].res.err))
            /\ \A k \in 1..Len(last'.calls) : last'.calls[k].op # "add_interned"
            /\ value_to_pos' = value_to_pos
            /\ Lookup(value_to_pos', c) = None

\* C22 (lookup): get_interned for the content of the call that just failed
\* returns None.
C22_GetStep ==
    (/\ last.op \in {"serialize_interned", "serialize_with"}
     /\ ~last.res.ok
     /\ last'.op = "get_interned"
     /\ last'.args = last.args) => last'.res = None

\* C22 (slots): every resolved slot of a long field reads the field's
\* value: the offset it was given is that of bytes written completely.
C22_SlotsWritten ==
    \A i \in Resolved :
        IsLong(fields[i].value) =>
            /\ ~is_inline(SlotBytes(buf, SlotOf(i)))
            /\ as_ptr(buf, SlotOf(i)) + Len(fields[i].value) <= SlotOf(i)
            /\ as_str(buf, SlotOf(i)) = fields[i].value

\* C22: a failure of the serializer while the bytes of a content that is
\* not recorded are written is returned by serialize_interned, records
\* nothing, leaves get_interned at None for the content, and no slot is ever
\* given an offset of bytes that were not written.
C22_FailureAtomic == []C22_SlotsWritten /\ [][C22_FailStep /\ C22_GetStep]_vars

\* serialize_interned failed on the write of a content that is not recorded,
\* with a slot resolved and another content recorded.
C22_Witness ==
    /\ last.op \in {"serialize_interned", "serialize_with"}
    /\ ~last.res.ok
    /\ last.args[1] \notin DOMAIN value_to_pos
    /\ Capacity - Len(buf) < Len(last.args[1])
    /\ Resolved # {}
    /\ value_to_pos # <<>>

====
